---- MODULE Spec2Model ----
(***************************************************************************)
(* Model of measurement.py: the sweep generator (make_excitation_sweep),   *)
(* the deconvolution (deconvolve) and the Measurement session.             *)
(*                                                                         *)
(* Representation.                                                         *)
(*  - Sample values are fixed point, one unit = 1e-7 (FullScale = 1.0).    *)
(*  - Durations are held in centiseconds, so int(d * fs) is                *)
(*    (d_cs * fs) \div 100 and int(fs * 0.01) is fs \div 100.              *)
(*  - A 2-D numpy array of shape [rows, n] is [rows |-> r, cols |-> c]     *)
(*    with c the sequence of its n columns (column k of numpy is c[k+1]).  *)
(*  - A Python value that may be None, [] or a 1-D array is a record       *)
(*    [tag, data].                                                         *)
(*  - scipy's chirp and butter and numpy's rfft are library code; chirp    *)
(*    is represented by a unit-magnitude stand-in waveform, spectra by     *)
(*    sequences of [mag, ph] bins supplied as inputs.                      *)
(***************************************************************************)
EXTENDS Integers, Sequences, FiniteSets, TLC

VARIABLES
    samplerate,                \* sd.default.samplerate
    sweep_parameters,          \* self.sweep_parameters
    channel_layout_input,      \* self.channel_layout_input  (1-based tuple)
    channel_layout_output,     \* self.channel_layout_output
    num_input_channels_used,
    num_output_channels_used,
    feedback_loop_used,
    sweep_mono,
    sweep_hpc_mono,
    excitation,
    excitation_hpc,
    recorded_sweep_l,
    recorded_sweep_r,
    feedback_loop,
    prepare_raised,            \* did the most recent prepare_audio raise
    call,                      \* the last API call and how it ended
    irs,                       \* what the last get_irs returned
    pc,                        \* position of each caller in single_measurement
    frame,                     \* each caller's locals (type, excitation, recorded)
    stream,                    \* sounddevice's one global stream
    dc                         \* the frame of a deconvolve call

sessionVars == <<samplerate, sweep_parameters, channel_layout_input,
                 channel_layout_output, num_input_channels_used,
                 num_output_channels_used, feedback_loop_used, sweep_mono,
                 sweep_hpc_mono, excitation, excitation_hpc, prepare_raised>>
resultVars == <<recorded_sweep_l, recorded_sweep_r, feedback_loop>>
concVars == <<pc, frame, stream>>
vars == <<sessionVars, resultVars, call, irs, concVars, dc>>

----------------------------------------------------------------------------
(* Bounds of the model *)

\* the highest device channel a role is routed to
MaxChannel == 2
\* the longest signal passed to deconvolve, in samples
MaxLen == 3
\* the number of blocks in which a stream delivers its frames
StreamBlocks == 2

(* Program constants: durations in centiseconds, frequencies in Hz, levels *)
(* in dB, fade lengths in samples, the feedback threshold 0.0001 in sample  *)
(* units of 1e-7.                                                           *)

DefaultSweepLength == 300
DefaultPostSilence == 150
DefaultFStart == 100
DefaultFEnd == 22000
DefaultAmpDb == -20
DefaultFadeOut == 200
HpcSweepLength == 200
ArgPostSilence == 100
ArgFStart == 20
ArgFEnd == 20000
ArgAmpDb == -20
ArgFadeOut == 0
FeedbackThreshold == 1000
DefaultLowpass == 20000

----------------------------------------------------------------------------
(* Units and small helpers *)

FullScale == 10^7
WindowOne == 10^2
CosOne == 10^3

Abs(v) == IF v < 0 THEN -v ELSE v
SetMax(S) == CHOOSE v \in S : \A w \in S : w <= v
SetMin(S) == CHOOSE v \in S : \A w \in S : v <= w
Range(s) == {s[i] : i \in DOMAIN s}

PyNone == [tag |-> "None", data |-> <<>>]
PyEmptyList == [tag |-> "list", data |-> <<>>]
NdArray(s) == [tag |-> "ndarray", data |-> s]

Zeros1(n) == [i \in 1..n |-> 0]
Zeros2(rows, n) == [rows |-> rows, cols |-> [k \in 1..n |-> Zeros1(rows)]]
NumCols(a) == Len(a.cols)

----------------------------------------------------------------------------
(* make_excitation_sweep *)

\* int(d * fs) with d in centiseconds
NumSamples(d_cs, fs) == (d_cs * fs) \div 100

\* 10 ** (amp_db / 20), for amp_db a non-positive multiple of 20
AmplitudeLin(amp_db) == FullScale \div (10 ^ ((0 - amp_db) \div 20))

\* scipy.signal.chirp(..., method='logarithmic', phi=90): raises unless
\* f0 * f1 > 0; sample 0 is cos(90 deg) = 0.
ChirpRaises(f0, f1) == f0 * f1 <= 0
ChirpSample(i, f0) ==
    IF i = 0 THEN 0
    ELSE IF ((i * f0) \div 100) % 2 = 0 THEN 1 ELSE -1

\* np.cos(np.linspace(0, np.pi / 2, f)) ** 2 at index j (0-based); the
\* cosine is Bhaskara's rational approximation, exact at 0 and at pi/2.
\* linspace with one point returns its start point.
FadeTmpNoEndpoint(j, f) ==
    IF f = 1 THEN WindowOne
    ELSE LET c == (CosOne * (4 * f * f - 4 * j * j)) \div (4 * f * f + j * j)
         IN (c * c) \div ((CosOne * CosOne) \div WindowOne)
FadeTmp(j, f) ==
    IF f = 1 THEN WindowOne
    ELSE LET b == f - 1
             c == (CosOne * (4 * b * b - 4 * j * j)) \div (4 * b * b + j * j)
         IN (c * c) \div ((CosOne * CosOne) \div WindowOne)

\* window = ones(n); window[n - f : n] = fade_tmp
\* The slice start n - f, when negative, counts from the end and is clipped
\* to 0; the assignment raises when the slice and fade_tmp differ in length
\* (a one-element fade_tmp broadcasts), and linspace raises for f < 0.
SliceStart(n, f) ==
    IF n - f >= 0 THEN (IF n - f > n THEN n ELSE n - f)
    ELSE (IF 2 * n - f < 0 THEN 0 ELSE 2 * n - f)
WindowRaises(n, f) ==
    \/ f < 0
    \/ /\ n - SliceStart(n, f) # f
       /\ f # 1
FadeWindow(n, f) ==
    LET s == SliceStart(n, f)
    IN [i \in 1..n |-> IF i > s /\ f > 0
                       THEN (IF f = 1 THEN FadeTmp(0, 1) ELSE FadeTmp(i - 1 - s, f))
                       ELSE WindowOne]

MakeSweepRaises(fs, d_sweep, f_start, f_end, fade) ==
    \/ ChirpRaises(f_start, f_end)
    \/ WindowRaises(NumSamples(d_sweep, fs), fade)

\* The num_channels columns of the returned array; all are the same signal.
MakeExcitationSweep(fs, num_channels, d_sweep, d_post, f_start, f_end, amp_db, fade) ==
    LET n == NumSamples(d_sweep, fs)
        amp == AmplitudeLin(amp_db)
        window == FadeWindow(n, fade)
        pre == fs \div 100
        post == NumSamples(d_post, fs)
        total == pre + n + post
        mono == [i \in 1..total |->
                    IF i <= pre \/ i > pre + n THEN 0
                    ELSE ChirpSample(i - pre - 1, f_start)
                           * ((amp * window[i - pre]) \div WindowOne)]
    IN [rows |-> total, cols |-> [k \in 1..num_channels |-> mono]]

----------------------------------------------------------------------------
(* prepare_audio *)

\* a[:, idxs] = src for a one-column src: numpy accepts an index k with
\* -n <= k < n and reads a negative k as n + k.
IndexRaises(a, idxs) ==
    \E j \in DOMAIN idxs : idxs[j] >= NumCols(a) \/ idxs[j] < 0 - NumCols(a)
ColumnOfClamped(a, k) == IF k < 0 THEN 1 ELSE k + 1
ColumnOf(a, k) == IF k < 0 THEN NumCols(a) + k + 1 ELSE k + 1
AssignColumns(a, idxs, src) ==
    [a EXCEPT !.cols = [c \in 1..NumCols(a) |->
        IF \E j \in DOMAIN idxs : ColumnOf(a, idxs[j]) = c
        THEN src.cols[1] ELSE a.cols[c]]]

OutChannels(clo, fbu) == IF ~fbu THEN SubSeq(clo, 1, 2) ELSE clo

\* The derived buffers after prepare_audio ran on the given configuration,
\* starting from the buffers old; raised tells whether it ran to its end.
PrepareAudio(fs, sp, clo, fbu, nout, old) ==
    IF MakeSweepRaises(fs, sp.sweeplength_sec, sp.f_start, sp.f_end, sp.fade_out_samples)
    THEN [old EXCEPT !.raised = TRUE]
    ELSE
    LET sm == MakeExcitationSweep(fs, 1, sp.sweeplength_sec, sp.post_silence_sec,
                                  sp.f_start, sp.f_end, sp.amp_db, sp.fade_out_samples)
        sh == MakeExcitationSweep(fs, 1, HpcSweepLength, ArgPostSilence,
                                  ArgFStart, ArgFEnd, ArgAmpDb, ArgFadeOut)
        out_channels == OutChannels(clo, fbu)
        e0 == Zeros2(sm.rows, nout)
        h0 == Zeros2(sh.rows, nout)
    IN IF IndexRaises(e0, out_channels)
       THEN [sweep_mono |-> sm, sweep_hpc_mono |-> sh, excitation |-> e0,
             excitation_hpc |-> old.excitation_hpc, raised |-> TRUE]
       ELSE [sweep_mono |-> sm, sweep_hpc_mono |-> sh,
             excitation |-> AssignColumns(e0, out_channels, sm),
             excitation_hpc |-> AssignColumns(h0, out_channels, sh),
             raised |-> FALSE]

Buffers == [sweep_mono |-> sweep_mono, sweep_hpc_mono |-> sweep_hpc_mono,
            excitation |-> excitation, excitation_hpc |-> excitation_hpc,
            raised |-> prepare_raised]

\* prepare_audio as the last statement of a setter, on the primed configuration
PrepareAudioStep ==
    LET b == PrepareAudio(samplerate', sweep_parameters', channel_layout_output',
                          feedback_loop_used', num_output_channels_used', Buffers)
    IN /\ sweep_mono' = b.sweep_mono
       /\ sweep_hpc_mono' = b.sweep_hpc_mono
       /\ excitation' = b.excitation
       /\ excitation_hpc' = b.excitation_hpc
       /\ prepare_raised' = b.raised

----------------------------------------------------------------------------
(* Inputs the model draws from *)

\* sd.default.samplerate as set before construction and by set_samplerate;
\* the default sweep (3 s, 200 fade samples) can be built from 67 Hz upwards.
AmbientSamplerate == 100
FsValues == {AmbientSamplerate \div 2, AmbientSamplerate}

InLayouts == {<<0, 1, -1>>, <<-1, 1, MaxChannel>>}
OutLayouts == {<<l, r, f>> : l \in {-1, 0}, r \in {-1, 1}, f \in {-1, MaxChannel}}
\* An output feedback channel without an input one is tried on one layout.
LayoutInputs ==
    {lay \in InLayouts \X OutLayouts :
        lay[1][3] >= 0 \/ lay[2][3] < 0 \/ (lay[2][1] = 0 /\ lay[2][2] = 1)}

FadeValues == {0, 1, 2, 100}
SweepInput(fade) ==
    [sweeplength_sec |-> 200, post_silence_sec |-> 50, f_start |-> 100,
     f_end |-> 10000, amp_db |-> -20, fade_out_samples |-> fade]
SweepInputs == {SweepInput(f) : f \in FadeValues}

Responses == {"loopback", "silent"}
NoiseValues == {0, 5}
GarbageValues == {0, 12345}

----------------------------------------------------------------------------
(* The instance after __init__ *)

\* The attributes __init__ assigns; no other method assigns a new one.
InstanceAttributes ==
    {"dummy_debugging", "sweep_parameters", "sound_success_fs",
     "sound_success_singlechannel", "sound_failed_fs", "sound_failed_singlechannel",
     "channel_layout_input", "channel_layout_output", "num_input_channels_used",
     "num_output_channels_used", "feedback_loop_used", "sweep_mono", "sweep_hpc_mono",
     "excitation", "excitation_hpc", "sound_success", "sound_failed",
     "recorded_sweep_l", "recorded_sweep_r", "feedback_loop"}

DefaultSweepParameters ==
    [sweeplength_sec |-> DefaultSweepLength, post_silence_sec |-> DefaultPostSilence,
     f_start |-> DefaultFStart, f_end |-> DefaultFEnd, amp_db |-> DefaultAmpDb,
     fade_out_samples |-> DefaultFadeOut]

NoBuffers == [sweep_mono |-> Zeros2(0, 0), sweep_hpc_mono |-> Zeros2(0, 0),
              excitation |-> Zeros2(0, 0), excitation_hpc |-> Zeros2(0, 0),
              raised |-> FALSE]

\* caller 0 is the one caller of the sequential specifications; the three
\* setters are recorded as the one operation "configure"
CallBy(c, op, result, hpc) == [caller |-> c, op |-> op, result |-> result, hpc |-> hpc]
Call(op, result, hpc) == CallBy(0, op, result, hpc)

IdleStream == [active |-> FALSE, owner |-> 0]
IdleFrame == [hpc |-> FALSE, excitation |-> Zeros2(0, 0), resp |-> "silent",
              garbage |-> 0, filled |-> 0, cancelled |-> FALSE]
IdleDc == [pc |-> "none"]

SessionInit ==
    /\ samplerate = AmbientSamplerate
    /\ sweep_parameters = DefaultSweepParameters
    /\ channel_layout_input = <<0, 1, -1>>
    /\ channel_layout_output = <<0, 1, -1>>
    /\ num_input_channels_used = 2
    /\ num_output_channels_used = 2
    /\ feedback_loop_used = FALSE
    /\ LET b == PrepareAudio(samplerate, sweep_parameters, channel_layout_output,
                             feedback_loop_used, num_output_channels_used, NoBuffers)
       IN /\ ~b.raised
          /\ sweep_mono = b.sweep_mono
          /\ sweep_hpc_mono = b.sweep_hpc_mono
          /\ excitation = b.excitation
          /\ excitation_hpc = b.excitation_hpc
          /\ prepare_raised = b.raised
    /\ recorded_sweep_l = PyNone
    /\ recorded_sweep_r = PyNone
    /\ feedback_loop = PyNone
    /\ call = Call("__init__", "ok", FALSE)
    /\ irs = [tag |-> "unset", left |-> 0, right |-> 0]

Callers == {1, 2}

Init ==
    /\ SessionInit
    /\ pc = [c \in Callers |-> "idle"]
    /\ frame = [c \in Callers |-> IdleFrame]
    /\ stream = IdleStream
    /\ dc = IdleDc

----------------------------------------------------------------------------
(* The setters *)

SetterResult == IF prepare_raised' THEN "raised" ELSE "ok"

SetSweepParameters(p) ==
    /\ sweep_parameters' = p
    /\ UNCHANGED <<samplerate, channel_layout_input, channel_layout_output,
                   num_input_channels_used, num_output_channels_used,
                   feedback_loop_used>>
    /\ PrepareAudioStep
    /\ call' = Call("configure", SetterResult, FALSE)
    /\ UNCHANGED <<resultVars, irs, concVars, dc>>

TupleMax(t) == SetMax(Range(t))

SetChannelLayout(in_channels, out_channels) ==
    LET off == out_channels[3] < 0 \/ in_channels[3] < 0
        in2 == IF off THEN [in_channels EXCEPT ![3] = -1] ELSE in_channels
        out2 == IF off THEN [out_channels EXCEPT ![3] = -1] ELSE out_channels
    IN /\ feedback_loop_used' = ~off
       /\ channel_layout_input' = in2
       /\ channel_layout_output' = out2
       /\ num_output_channels_used' = TupleMax(out2) + 1
       /\ num_input_channels_used' = TupleMax(in2) + 1
       /\ UNCHANGED <<samplerate, sweep_parameters>>
       /\ PrepareAudioStep
       /\ call' = Call("configure", SetterResult, FALSE)
       /\ UNCHANGED <<resultVars, irs, concVars, dc>>

\* given = FALSE is the call set_samplerate() with fs=None: the global
\* samplerate, already set, is kept.
SetSamplerate(given, fs) ==
    /\ samplerate' = IF given THEN fs ELSE samplerate
    /\ UNCHANGED <<sweep_parameters, channel_layout_input, channel_layout_output,
                   num_input_channels_used, num_output_channels_used,
                   feedback_loop_used>>
    /\ PrepareAudioStep
    /\ call' = Call("configure", SetterResult, FALSE)
    /\ UNCHANGED <<resultVars, irs, concVars, dc>>

----------------------------------------------------------------------------
(* The audio device, as single_measurement uses it *)

\* sd.check_input_settings / sd.check_output_settings: the device decides
\* (accepted), and no device takes fewer than one channel.
SettingsRejected(accepted) ==
    \/ ~accepted
    \/ num_input_channels_used < 1
    \/ num_output_channels_used < 1

\* sd.playrec refuses an output array without columns.
PlayrecRaises(exc) == NumCols(exc) = 0

\* What reaches every input channel at frame i: nothing, or the mix of the
\* played columns at half level.
RECURSIVE SumFrom(_, _, _)
SumFrom(a, i, c) == IF c > NumCols(a) THEN 0 ELSE a.cols[c][i] + SumFrom(a, i, c + 1)
ResponseSample(resp, exc, i) ==
    IF resp = "silent" THEN 0 ELSE SumFrom(exc, i, 1) \div 2

\* The array playrec returns, once the stream wrote its first `filled`
\* frames; the frames not yet written hold what the allocation left there.
Recorded(exc, nin, resp, filled, garbage) ==
    LET col == [i \in 1..exc.rows |->
                   IF i <= filled THEN ResponseSample(resp, exc, i) ELSE garbage]
    IN [rows |-> exc.rows, cols |-> [c \in 1..nin |-> col]]

----------------------------------------------------------------------------
(* single_measurement *)

ChooseExcitation(hpc) == IF hpc THEN excitation_hpc ELSE excitation

ExtractChannel(recorded, idx) ==
    IF idx >= 0 THEN NdArray(recorded.cols[idx + 1])
    ELSE NdArray(Zeros1(recorded.rows))

ExtractFeedbackSwapped(recorded, hpc, noise) ==
    IF feedback_loop_used
    THEN LET fb == recorded.cols[channel_layout_input[3] + 1]
         IN IF Abs(SetMax(Range(fb))) < FeedbackThreshold
            THEN NdArray([i \in 1..Len(fb) |-> noise])
            ELSE NdArray(fb)
    ELSE IF hpc THEN NdArray(sweep_mono.cols[1])
         ELSE NdArray(sweep_hpc_mono.cols[1])

ExtractFeedback(recorded, hpc, noise) ==
    IF feedback_loop_used
    THEN LET fb == recorded.cols[channel_layout_input[3] + 1]
         IN IF Abs(SetMax(Range(fb))) < FeedbackThreshold
            THEN NdArray([i \in 1..Len(fb) |-> noise])
            ELSE NdArray(fb)
    ELSE IF hpc THEN NdArray(sweep_hpc_mono.cols[1])
         ELSE NdArray(sweep_mono.cols[1])

ResetResults ==
    /\ recorded_sweep_l' = PyEmptyList
    /\ recorded_sweep_r' = PyEmptyList
    /\ feedback_loop' = PyEmptyList

ExtractResults(recorded, hpc, noise) ==
    /\ recorded_sweep_l' = ExtractChannel(recorded, channel_layout_input[1])
    /\ recorded_sweep_r' = ExtractChannel(recorded, channel_layout_input[2])
    /\ feedback_loop' = ExtractFeedback(recorded, hpc, noise)

\* One call by a single caller, run to its end with nothing in between.
SingleMeasurement(hpc, accepted, resp, noise) ==
    LET exc == ChooseExcitation(hpc)
    IN /\ IF SettingsRejected(accepted)
          THEN /\ ResetResults
               /\ call' = Call("single_measurement", "hardware_error", hpc)
          ELSE IF PlayrecRaises(exc)
          THEN /\ ResetResults
               /\ call' = Call("single_measurement", "raised", hpc)
          ELSE /\ ExtractResults(Recorded(exc, num_input_channels_used, resp,
                                          exc.rows, 0), hpc, noise)
               /\ call' = Call("single_measurement", "ok", hpc)
       /\ UNCHANGED <<sessionVars, irs, concVars, dc>>

get_recordings == <<recorded_sweep_l, recorded_sweep_r, feedback_loop>>

----------------------------------------------------------------------------
(* deconvolve: lengths and failures *)

RECURSIVE CeilLog2From(_, _)
CeilLog2From(len, k) == IF 2 ^ k >= len THEN k ELSE CeilLog2From(len, k + 1)

\* int(pow(2, np.ceil(np.log2(input_length)) + 1)); log2(0) is -inf and
\* pow(2, -inf) is 0.
NFft(input_length) ==
    IF input_length = 0 THEN 0 ELSE 2 ^ (CeilLog2From(input_length, 0) + 1)

\* rfft(a, n) raises for n < 1; it pads or cuts a to n samples otherwise.
RfftRaises(n) == n < 1
NumBins(n) == n \div 2 + 1

\* butter(order, cutoff, ..., fs=fs) raises unless 0 < cutoff < fs / 2.
ButterRaises(cutoff, fs) == cutoff <= 0 \/ 2 * cutoff >= fs

NoFilter == [given |-> FALSE, cutoff |-> 0]
Filter(cutoff) == [given |-> TRUE, cutoff |-> cutoff]

DeconvolveRaises(x_len, fs, lowpass, highpass) ==
    \/ RfftRaises(NFft(x_len))
    \/ lowpass.given /\ ButterRaises(lowpass.cutoff, fs)
    \/ highpass.given /\ ButterRaises(highpass.cutoff, fs)

\* The length of h = irfft(H, N_fft)[:input_length]
DeconvolveLen(x_len) == IF x_len < NFft(x_len) THEN x_len ELSE NFft(x_len)

DeconvolveShape(x_len, y_len, fs, lowpass, highpass) ==
    IF DeconvolveRaises(x_len, fs, lowpass, highpass)
    THEN [raised |-> TRUE, len |-> 0]
    ELSE [raised |-> FALSE, len |-> DeconvolveLen(x_len)]

----------------------------------------------------------------------------
(* get_irs *)

\* np.size of a Python value: None counts as one element
PySize(v) == IF v.tag = "None" THEN 1 ELSE Len(v.data)

\* get_irs with no recordings passed; hp and lp are the cutoffs passed, if any.
\* Evaluating the argument self.fs raises AttributeError before deconvolve
\* is entered, and the bare except turns every exception into a None result.
GetIrs(hp, lp) ==
    LET deconv_fc_hp == IF hp.given THEN hp.cutoff ELSE sweep_parameters.f_start * 2
        deconv_fc_lp == IF lp.given THEN lp.cutoff ELSE DefaultLowpass
        ir(rec) == DeconvolveShape(PySize(feedback_loop), PySize(rec), samplerate,
                                   Filter(deconv_fc_lp), Filter(deconv_fc_hp))
        bad(rec) == rec.tag = "None" \/ feedback_loop.tag = "None" \/ ir(rec).raised
    IN /\ irs' = IF "fs" \notin InstanceAttributes
                    \/ bad(recorded_sweep_l) \/ bad(recorded_sweep_r)
                 THEN [tag |-> "None", left |-> 0, right |-> 0]
                 ELSE [tag |-> "list", left |-> ir(recorded_sweep_l).len,
                       right |-> ir(recorded_sweep_r).len]
       /\ call' = Call("get_irs", "ok", FALSE)
       /\ UNCHANGED <<sessionVars, resultVars, concVars, dc>>

----------------------------------------------------------------------------
(* The session used by one caller *)

MeasureLayouts ==
    {<<(<<0, 1, -1>>), (<<0, 1, -1>>)>>,
     <<(<<-1, 1, MaxChannel>>), (<<-1, 1, MaxChannel>>)>>,
     <<(<<0, 1, -1>>), (<<-1, -1, -1>>)>>}
MeasureSweeps == {SweepInput(2), SweepInput(201)}

Next ==
    \/ \E p \in MeasureSweeps : SetSweepParameters(p)
    \/ \E lay \in MeasureLayouts : SetChannelLayout(lay[1], lay[2])
    \/ \E given \in BOOLEAN : SetSamplerate(given, AmbientSamplerate)
    \/ \E hpc \in BOOLEAN, accepted \in BOOLEAN, resp \in Responses, noise \in NoiseValues :
          SingleMeasurement(hpc, accepted, resp, noise)
    \/ \E hp \in {NoFilter, Filter(200)}, lp \in {NoFilter} : GetIrs(hp, lp)

Spec == Init /\ [][Next]_vars

(* The configuration surface alone *)

NextConfig ==
    \/ \E p \in SweepInputs : SetSweepParameters(p)
    \/ \E lay \in LayoutInputs : SetChannelLayout(lay[1], lay[2])
    \/ \E given \in BOOLEAN, fs \in FsValues : SetSamplerate(given, fs)

SpecConfig == Init /\ [][NextConfig]_vars

----------------------------------------------------------------------------
(* single_measurement and interrupt_measurement called from several threads *)
(* The steps of one call are its statements between the points where the   *)
(* thread can be suspended: time.sleep, sd.playrec, sd.wait.                *)

InTransaction(c) == pc[c] \in {"wait", "extract"}

\* lines 308-318: the reset and the choice of the excitation, up to the sleep
SmBegin(c, hpc) ==
    /\ pc[c] = "idle"
    /\ ResetResults
    /\ frame' = [frame EXCEPT ![c] = [IdleFrame EXCEPT !.hpc = hpc,
                                        !.excitation = ChooseExcitation(hpc)]]
    /\ pc' = [pc EXCEPT ![c] = "validate"]
    /\ UNCHANGED <<sessionVars, call, irs, stream, dc>>

\* lines 320-325
SmValidate(c, accepted) ==
    /\ pc[c] = "validate"
    /\ IF SettingsRejected(accepted)
       THEN /\ pc' = [pc EXCEPT ![c] = "idle"]
            /\ call' = CallBy(c, "single_measurement", "hardware_error", frame[c].hpc)
       ELSE /\ pc' = [pc EXCEPT ![c] = "playrec"]
            /\ UNCHANGED call
    /\ UNCHANGED <<sessionVars, resultVars, irs, frame, stream, dc>>

\* line 328: sd.playrec stops the stream that is running, if any, allocates
\* the input array and starts a new stream on it, without waiting.
SmPlayrec(c, resp, garbage) ==
    /\ pc[c] = "playrec"
    /\ IF PlayrecRaises(frame[c].excitation)
       THEN /\ pc' = [pc EXCEPT ![c] = "idle"]
            /\ call' = CallBy(c, "single_measurement", "raised", frame[c].hpc)
            /\ UNCHANGED <<frame, stream>>
       ELSE /\ pc' = [pc EXCEPT ![c] = "wait"]
            /\ frame' = [frame EXCEPT ![c].resp = resp, ![c].garbage = garbage,
                                      ![c].filled = 0]
            /\ stream' = [active |-> TRUE, owner |-> c]
            /\ UNCHANGED call
    /\ UNCHANGED <<sessionVars, resultVars, irs, dc>>

\* The running stream writes its next block of frames into its owner's
\* input array and finishes after the last one.
BlockFrames(rows) == (rows + StreamBlocks - 1) \div StreamBlocks
StreamAdvance ==
    /\ stream.active
    /\ LET c == stream.owner
           rows == frame[c].excitation.rows
           upto == IF frame[c].filled + BlockFrames(rows) > rows THEN rows
                   ELSE frame[c].filled + BlockFrames(rows)
       IN /\ frame' = [frame EXCEPT ![c].filled = upto]
          /\ stream' = [stream EXCEPT !.active = upto < rows]
    /\ UNCHANGED <<sessionVars, resultVars, call, irs, pc, dc>>

\* lines 294-295: sd.stop() ends the running stream where it is
InterruptMeasurement ==
    /\ stream.active
    /\ stream' = [stream EXCEPT !.active = FALSE]
    /\ frame' = [frame EXCEPT ![stream.owner].cancelled = TRUE]
    /\ UNCHANGED <<sessionVars, resultVars, call, irs, pc, dc>>

\* line 329: sd.wait() returns once the global stream is no longer running
SmWait(c) ==
    /\ pc[c] = "wait"
    /\ ~stream.active
    /\ pc' = [pc EXCEPT ![c] = "extract"]
    /\ UNCHANGED <<sessionVars, resultVars, call, irs, frame, stream, dc>>

\* lines 331-351
SmExtract(c, noise) ==
    /\ pc[c] = "extract"
    /\ ExtractResults(Recorded(frame[c].excitation, num_input_channels_used,
                               frame[c].resp, frame[c].filled, frame[c].garbage),
                      frame[c].hpc, noise)
    /\ pc' = [pc EXCEPT ![c] = "idle"]
    /\ call' = CallBy(c, "single_measurement", "ok", frame[c].hpc)
    /\ UNCHANGED <<sessionVars, irs, frame, stream, dc>>

NextConc ==
    \/ \E c \in Callers, hpc \in BOOLEAN : SmBegin(c, hpc)
    \/ \E c \in Callers, accepted \in BOOLEAN : SmValidate(c, accepted)
    \/ \E c \in Callers, garbage \in GarbageValues : SmPlayrec(c, "loopback", garbage)
    \/ StreamAdvance
    \/ InterruptMeasurement
    \/ \E c \in Callers : SmWait(c)
    \/ \E c \in Callers : SmExtract(c, 0)

SpecConc == Init /\ [][NextConc]_vars

----------------------------------------------------------------------------
(* deconvolve, statement by statement, on spectra *)
(* A spectrum is a sequence of bins [mag, ph]; bin k of numpy is at k + 1.  *)
(* The magnitude of an inverse spectrum is in units of 1 / InvOne.          *)

InvOne == 10^6
DeconvFs == 48 * 10^3

BinValues == {[mag |-> 1, ph |-> 0], [mag |-> 10, ph |-> 90], [mag |-> 1000, ph |-> -90]}
Spectra(n) == [1..n -> BinValues]
DynValues == {[given |-> FALSE, db |-> 0], [given |-> TRUE, db |-> 0],
              [given |-> TRUE, db |-> 20], [given |-> TRUE, db |-> -40]}
FilterPairs == {<<NoFilter, NoFilter>>, <<Filter(DefaultLowpass), Filter(2 * DefaultFStart)>>}

Mags(X) == {X[k].mag : k \in DOMAIN X}

\* rfft(y, N_fft) of a recording: an empty y is padded to N_fft zeros
SpectrumOfY(y_len, n) ==
    [k \in 1..NumBins(n) |-> [mag |-> IF y_len = 0 THEN 0 ELSE 1, ph |-> 0]]

\* X_inv = 1 / X_f
Invert(X) == [k \in DOMAIN X |-> [mag |-> InvOne \div X[k].mag, ph |-> 0 - X[k].ph]]

\* mag_limit = min_mag * pow(10, np.abs(max_inv_dyn) / 20)
MagLimitNoAbs(X, db) ==
    IF db < 0 THEN SetMin(Mags(X)) \div (10 ^ ((0 - db) \div 20))
    ELSE SetMin(Mags(X)) * (10 ^ (db \div 20))
MagLimit(X, db) == SetMin(Mags(X)) * (10 ^ (Abs(db) \div 20))

\* X_inv[ids_exceed] = mag_limit * exp(1j * angle(X_inv[ids_exceed]))
Clamp(X, db) ==
    [k \in DOMAIN X |-> IF X[k].mag > MagLimit(X, db)
                        THEN [mag |-> MagLimit(X, db), ph |-> X[k].ph]
                        ELSE X[k]]

\* The response of the repeated Butterworth sections at bin k, as a pass
\* band: the bin's frequency is k * fs / N_fft.
FilterGain(k, n, fs, lowpass, highpass) ==
    IF /\ lowpass.given => k * fs <= lowpass.cutoff * n
       /\ highpass.given => k * fs >= highpass.cutoff * n
    THEN 1 ELSE 0
ApplyFilter(X, n, fs, lowpass, highpass) ==
    [k \in DOMAIN X |-> [mag |-> X[k].mag * FilterGain(k - 1, n, fs, lowpass, highpass),
                         ph |-> X[k].ph]]

\* H = Y_f * X_inv
Multiply(Y, X) == [k \in DOMAIN X |-> [mag |-> Y[k].mag * X[k].mag, ph |-> Y[k].ph + X[k].ph]]

DeconvCalls ==
    {[pc |-> "called", x_len |-> xl, y_len |-> yl, fs |-> DeconvFs, max_inv_dyn |-> d,
      lowpass |-> f[1], highpass |-> f[2], N_fft |-> 0, X_f |-> <<>>, Y_f |-> <<>>,
      X_inv |-> <<>>, H |-> <<>>, h_len |-> 0] :
        xl \in 0..MaxLen, yl \in 0..MaxLen, d \in DynValues, f \in FilterPairs}

InitDeconv ==
    /\ SessionInit
    /\ pc = [c \in Callers |-> "idle"]
    /\ frame = [c \in Callers |-> IdleFrame]
    /\ stream = IdleStream
    /\ dc \in DeconvCalls

DcUnchanged == UNCHANGED <<sessionVars, resultVars, call, irs, concVars>>

\* lines 36-42
DeconvTransform ==
    /\ dc.pc = "called"
    /\ LET n == NFft(dc.x_len)
       IN IF RfftRaises(n)
          THEN dc' = [dc EXCEPT !.pc = "raised"]
          ELSE \E X \in Spectra(NumBins(n)) :
                  dc' = [dc EXCEPT !.pc = "transformed", !.N_fft = n, !.X_f = X,
                                   !.Y_f = SpectrumOfY(dc.y_len, n)]
    /\ DcUnchanged

\* line 45
DeconvInvert ==
    /\ dc.pc = "transformed"
    /\ dc' = [dc EXCEPT !.pc = "inverted", !.X_inv = Invert(dc.X_f)]
    /\ DcUnchanged

\* lines 47-54
DeconvLimit ==
    /\ dc.pc = "inverted"
    /\ dc' = [dc EXCEPT !.pc = "limited",
                        !.X_inv = IF dc.max_inv_dyn.given
                                  THEN Clamp(dc.X_inv, dc.max_inv_dyn.db)
                                  ELSE dc.X_inv]
    /\ DcUnchanged

\* lines 56-77
DeconvFilter ==
    /\ dc.pc = "limited"
    /\ IF \/ dc.lowpass.given /\ ButterRaises(dc.lowpass.cutoff, dc.fs)
          \/ dc.highpass.given /\ ButterRaises(dc.highpass.cutoff, dc.fs)
       THEN dc' = [dc EXCEPT !.pc = "raised"]
       ELSE dc' = [dc EXCEPT !.pc = "filtered",
                             !.X_inv = IF dc.lowpass.given \/ dc.highpass.given
                                       THEN ApplyFilter(dc.X_inv, dc.N_fft, dc.fs,
                                                        dc.lowpass, dc.highpass)
                                       ELSE dc.X_inv]
    /\ DcUnchanged

\* lines 79-88
DeconvReturn ==
    /\ dc.pc = "filtered"
    /\ dc' = [dc EXCEPT !.pc = "returned", !.H = Multiply(dc.Y_f, dc.X_inv),
                        !.h_len = DeconvolveLen(dc.x_len)]
    /\ DcUnchanged

NextDeconv ==
    \/ DeconvTransform
    \/ DeconvInvert
    \/ DeconvLimit
    \/ DeconvFilter
    \/ DeconvReturn

SpecDeconv == InitDeconv /\ [][NextDeconv]_vars

----------------------------------------------------------------------------
(* The claims *)

Ready == /\ recorded_sweep_l.tag = "ndarray"
         /\ recorded_sweep_r.tag = "ndarray"
         /\ feedback_loop.tag = "ndarray"

\* C1: a single_measurement that fails its channel-count / sample-rate
\* validation, called when the results of a successful measurement are
\* stored, leaves recorded_sweep_l, recorded_sweep_r and feedback_loop as
\* they were before the call.
C1_FailedMeasurementKeepsResults ==
    [][(Ready /\ call'.op = "single_measurement" /\ call'.result = "hardware_error")
          => UNCHANGED resultVars]_vars

\* C2: after a successful single_measurement, get_irs with no recordings
\* passed returns a pair of impulse responses and not None.
C2_GetIrsReturnsPair ==
    (call.op = "get_irs" /\ Ready) => irs.tag = "list"

EnabledOutputs == {channel_layout_output[j] : j \in 1..3} \ {-1}
Silent(a) ==
    \A k \in 1..NumCols(a) : (k - 1) \notin EnabledOutputs => a.cols[k] = Zeros1(a.rows)

C5_ExcitationCurrent ==
    LET b == PrepareAudio(samplerate, sweep_parameters, channel_layout_output,
                          feedback_loop_used, num_output_channels_used, NoBuffers)
    IN /\ ~MakeSweepRaises(samplerate, sweep_parameters.sweeplength_sec,
                           sweep_parameters.f_start, sweep_parameters.f_end,
                           sweep_parameters.fade_out_samples)
       /\ sweep_mono = b.sweep_mono
       /\ excitation = b.excitation
       /\ NumCols(excitation) = num_output_channels_used

\* C6: no two callers are both between the start of playrec and the end of
\* the extraction of the results.
C6_NoOverlappingTransactions ==
    \A c \in Callers, d \in Callers : c # d => ~(InTransaction(c) /\ InTransaction(d))

\* C7: once a single_measurement whose transaction was interrupted has
\* returned, the session holds no recording extracted from that transaction.
C7_CancelledYieldsNoRecording ==
    \A c \in Callers :
        (/\ call = CallBy(c, "single_measurement", "ok", frame[c].hpc)
         /\ pc[c] = "idle"
         /\ frame[c].cancelled)
        => /\ recorded_sweep_l.tag # "ndarray"
           /\ recorded_sweep_r.tag # "ndarray"
           /\ feedback_loop.tag # "ndarray"

\* C8: after the clamping step with max_inv_dyn = D, the largest bin
\* magnitude of X_inv is at most 10^(|D|/20) times the smallest, the smallest
\* magnitude is the one before the clamp, and only bins above the ceiling
\* were changed, in magnitude alone.
C8_DynamicLimitingBound ==
    (dc.pc = "limited" /\ dc.max_inv_dyn.given) =>
        LET pre == Invert(dc.X_f)
            post == dc.X_inv
            factor == 10 ^ (Abs(dc.max_inv_dyn.db) \div 20)
            floor == SetMin(Mags(pre))
        IN /\ SetMax(Mags(post)) <= SetMin(Mags(post)) * factor
           /\ SetMin(Mags(post)) = floor
           /\ \A k \in DOMAIN pre :
                 /\ pre[k].mag <= floor * factor => post[k] = pre[k]
                 /\ post[k].ph = pre[k].ph

C8_Witness ==
    /\ dc.pc = "limited"
    /\ dc.max_inv_dyn.given
    /\ dc.max_inv_dyn.db = -40
    /\ \E k \in DOMAIN dc.X_inv : dc.X_inv[k].mag < Invert(dc.X_f)[k].mag
    /\ \E k \in DOMAIN dc.X_inv : dc.X_inv[k] = Invert(dc.X_f)[k]

\* The last sample of the sweep inside a generated mono signal, and the
\* value of its fade window there
SweepLen == NumSamples(sweep_parameters.sweeplength_sec, samplerate)
HpcLen == NumSamples(HpcSweepLength, samplerate)
LastSweepSample(sig, n) == sig.cols[1][samplerate \div 100 + n]
LastWindowValue(n, fade) == FadeWindow(n, fade)[n]

\* C9 as stated: for every sweep prepare_audio generated, the measurement
\* sweep and the HPC sweep, the fade window is 0 at the last sweep sample
\* and so is that sample.
C9_EverySweepFadesToZero ==
    ~prepare_raised =>
        /\ LastWindowValue(SweepLen, sweep_parameters.fade_out_samples) = 0
        /\ LastSweepSample(sweep_mono, SweepLen) = 0
        /\ LastWindowValue(HpcLen, ArgFadeOut) = 0
        /\ LastSweepSample(sweep_hpc_mono, HpcLen) = 0

\* C9 as amended: the measurement sweep generated with fade_out_samples from
\* 2 up to the sweep length has window value 0 and sample 0 at its last
\* sweep sample; with fade_out_samples 0 or 1 the window is 1 there; the HPC
\* sweep, generated with fade_out_samples = 0, is not faded.
C9_FadesToZeroFromTwoSamples ==
    ~prepare_raised =>
        LET f == sweep_parameters.fade_out_samples
        IN /\ f >= 2 => /\ LastWindowValue(SweepLen, f) = 0
                        /\ LastSweepSample(sweep_mono, SweepLen) = 0
           /\ f < 2 => LastWindowValue(SweepLen, f) = WindowOne
           /\ LastWindowValue(HpcLen, ArgFadeOut) = WindowOne
           /\ Abs(LastSweepSample(sweep_hpc_mono, HpcLen)) = AmplitudeLin(ArgAmpDb)

C9_Witness ==
    /\ ~prepare_raised
    /\ sweep_parameters.fade_out_samples = SweepLen
    /\ sweep_parameters.fade_out_samples >= 2
    /\ LastSweepSample(sweep_mono, SweepLen) = 0
    /\ sweep_mono.cols[1][samplerate \div 100 + 1 + 1] # 0

\* C10: deconvolve returns no array when x and y differ in length or one of
\* them is empty, and an array of exactly L samples for equal lengths L > 0.
C10_FailFastOnMalformedInput ==
    dc.pc = "returned" =>
        /\ dc.x_len = dc.y_len
        /\ dc.x_len > 0
        /\ dc.h_len = dc.x_len

====
